---- MODULE Spec2Model ----
(***************************************************************************)
(* Model of the benchmark dashboard: the BenchmarkCharts component         *)
(* (src/unnamed/part_000, second revision, lines 474-1138), the App shell  *)
(* (src/src/App.tsx) and the row / metadata types                          *)
(* (src/src/types/benchmark.ts).                                           *)
(*                                                                         *)
(* Encoding of JavaScript values                                           *)
(*   string | null   a TLA+ string; null is the string NullStr             *)
(*   number | null   an integer; null is the integer NullNum               *)
(*   object          a sequence of <<key, value>> pairs in insertion order *)
(*                   (own-property order is what JSON.stringify and        *)
(*                   Object.keys observe)                                  *)
(*   Map             a sequence of [k, v] entries in insertion order       *)
(*   T | null result the empty sequence for null, <<x>> for a value        *)
(***************************************************************************)
EXTENDS Integers, Sequences, FiniteSets, TLC

VARIABLES
    url,                \* window.location.search as a list of <<key, value>>
    localStorage,       \* project name -> stored recent-filters list
    selectedProject,    \* App state: <<>> or <<metadata>>
    selectedCategories, \* BenchmarkCharts state: the filter object
    categories,         \* BenchmarkCharts state: key -> distinct values
    exampleFilters,     \* BenchmarkCharts state
    recentFilters,      \* BenchmarkCharts state
    benchmarks,         \* BenchmarkCharts state: the stored rows
    loading,            \* BenchmarkCharts state
    error,              \* BenchmarkCharts state: NullStr or a message
    showCharts,         \* BenchmarkCharts state
    pending,            \* requests awaiting their response
    resolution,         \* the Promise.all join of fetchCategoriesAndExamples
    fetches,            \* number of benchmark fetches started so far
    projectSelector,    \* ProjectSelector state: projects, loading, error, and whether its query is awaited
    rendered            \* the last aggregation call of the render and its result

vars == <<url, localStorage, selectedProject, selectedCategories, categories, exampleFilters, recentFilters, benchmarks, loading, error, showCharts, pending, resolution, fetches, projectSelector, rendered>>

uiVars == <<url, localStorage, selectedProject, selectedCategories, categories, exampleFilters, recentFilters, benchmarks, loading, error, showCharts, pending, resolution, fetches, projectSelector>>

-----------------------------------------------------------------------------
(* Values *)

\* null of a `string | null` field
NullStr == "<null>"

\* null of a `number | null` field (measured values are naturals in the model)
NullNum == -1

CategoryKeys == <<"category1", "category2", "category3", "category4", "category5">>

ValueKeys == <<"value1", "value2", "value3", "value4", "value5">>

\* a Benchmark row with the given project, timestamp (seconds), categories and value1
Row(p, t, c1, c2, v1) == [project |-> p, timestamp |-> t, category1 |-> c1, category2 |-> c2, category3 |-> NullStr, category4 |-> NullStr, category5 |-> NullStr, value1 |-> v1, value2 |-> NullNum, value3 |-> NullNum, value4 |-> NullNum, value5 |-> NullNum]

\* project metadata with the given category and value display names
Metadata(p, c1, c2, c3, v1) == [project |-> p, category1_name |-> c1, category2_name |-> c2, category3_name |-> c3, category4_name |-> NullStr, category5_name |-> NullStr, value1_name |-> v1, value2_name |-> NullStr, value3_name |-> NullStr, value4_name |-> NullStr, value5_name |-> NullStr]

\* the spec's scenario project: one category dimension, one value dimension
ProjAPI == Metadata("API", "region", NullStr, NullStr, "latency")

\* a project with two category dimensions
ProjWeb == Metadata("Web", "region", "os", NullStr, "latency")

-----------------------------------------------------------------------------
(* Sequence helpers *)

RECURSIVE Join(_, _)
\* Array.prototype.join
Join(parts, sep) == IF Len(parts) = 0 THEN "" ELSE IF Len(parts) = 1 THEN parts[1] ELSE parts[1] \o sep \o Join(Tail(parts), sep)

RECURSIVE SumSeq(_)
\* values.reduce((a, b) => a + b, 0)
SumSeq(s) == IF Len(s) = 0 THEN 0 ELSE s[1] + SumSeq(Tail(s))

\* Math.min(...values), values non-empty
MathMin(s) == CHOOSE m \in {s[i] : i \in DOMAIN s} : \A i \in DOMAIN s : m <= s[i]

\* Math.max(...values), values non-empty
MathMax(s) == CHOOSE m \in {s[i] : i \in DOMAIN s} : \A i \in DOMAIN s : m >= s[i]

\* Array.prototype.map over a field of each element
MapField(s, f) == [i \in DOMAIN s |-> s[i][f]]

-----------------------------------------------------------------------------
(* BenchmarkCharts: derived values *)

\* the five slots, in slot order, with the project's display names
CategorySlots(project) == [i \in 1..5 |-> [key |-> CategoryKeys[i], name |-> project[CategoryKeys[i] \o "_name"]]]

\* the mutant of activeCategoryFields: every slot is kept
activeCategoryFieldsAll(project) == CategorySlots(project)

\* useMemo: the slots whose name is not null
activeCategoryFields(project) == SelectSeq(CategorySlots(project), LAMBDA cat : cat.name # NullStr)

ValueSlots(project) == [i \in 1..5 |-> [key |-> ValueKeys[i], name |-> project[ValueKeys[i] \o "_name"]]]

activeValueFields(project) == SelectSeq(ValueSlots(project), LAMBDA val : val.name # NullStr)

\* `x || 'null'`: null and the empty string are falsy
OrNull(x) == IF x = NullStr \/ x = "" THEN "null" ELSE x

RECURSIVE MapJoin(_, _, _)
\* fields.map(({key}) => benchmark[key] || 'null').join('|'), the part from the i-th field on
MapJoin(fields, benchmark, i) == IF i > Len(fields) THEN "" ELSE OrNull(benchmark[fields[i].key]) \o (IF i < Len(fields) THEN "|" \o MapJoin(fields, benchmark, i + 1) ELSE "")

\* the combination key of a row
getCategoryKey(fields, benchmark) == MapJoin(fields, benchmark, 1)

\* the mutant of NonNull: nothing is filtered out
NonNullKeepAll(v) == TRUE

\* `v !== null && v !== undefined`
NonNull(v) == v # NullNum

\* the mutant of LastOf: the first element
FirstOf(values) == values[1]

\* values[values.length - 1]
LastOf(values) == values[Len(values)]

\* the mutant of StatsValues: rows of every combination contribute
StatsValuesAllRows(rows, fields, valueKey, categoryKey) == SelectSeq(MapField(rows, valueKey), NonNull)

\* the filter / map / filter chain of calculateStats
StatsValues(rows, fields, valueKey, categoryKey) == SelectSeq(MapField(SelectSeq(rows, LAMBDA b : getCategoryKey(fields, b) = categoryKey), valueKey), NonNull)

\* calculateStats: <<>> for null, else <<the statistics record>>;
\* avg is the exact quotient sum / count, kept as numerator and denominator
calculateStats(rows, fields, valueKey, categoryKey) ==
    LET values == StatsValues(rows, fields, valueKey, categoryKey)
    IN  IF Len(values) = 0 THEN <<>>
        ELSE <<[avg |-> [num |-> SumSeq(values), den |-> Len(values)], min |-> MathMin(values), max |-> MathMax(values), latest |-> LastOf(values), count |-> Len(values)]>>

SecondsPerMinute == 60

\* toLocaleString with year .. minute: the label names the minute of the timestamp
FormatMinute(t) == t \div SecondsPerMinute

\* index of the Map entry with key k, 0 when absent
MapIndex(m, k) == IF \E i \in DOMAIN m : m[i].k = k THEN CHOOSE i \in DOMAIN m : m[i].k = k ELSE 0

\* dataPoint[key] = value on a ChartDataPoint
SetField(dataPoint, key, value) == [x \in DOMAIN dataPoint \cup {key} |-> IF x = key THEN value ELSE dataPoint[x]]

\* the mutant of ChartStep: a later row of the bucket never replaces a point
ChartStepFirstWins(m, fields, valueKey, benchmark) ==
    LET timestamp == FormatMinute(benchmark.timestamp)
        categoryKey == getCategoryKey(fields, benchmark)
        value == benchmark[valueKey]
        m1 == IF MapIndex(m, timestamp) = 0 THEN Append(m, [k |-> timestamp, v |-> [timestamp |-> timestamp, fullTimestamp |-> benchmark.timestamp]]) ELSE m
        i == MapIndex(m1, timestamp)
    IN  IF categoryKey \in DOMAIN m1[i].v THEN m1 ELSE [m1 EXCEPT ![i].v = SetField(@, categoryKey, value)]

\* one iteration of benchmarks.forEach in getChartDataForValue
ChartStep(m, fields, valueKey, benchmark) ==
    LET timestamp == FormatMinute(benchmark.timestamp)
        categoryKey == getCategoryKey(fields, benchmark)
        value == benchmark[valueKey]
        m1 == IF MapIndex(m, timestamp) = 0 THEN Append(m, [k |-> timestamp, v |-> [timestamp |-> timestamp, fullTimestamp |-> benchmark.timestamp]]) ELSE m
        i == MapIndex(m1, timestamp)
    IN  [m1 EXCEPT ![i].v = SetField(@, categoryKey, value)]

RECURSIVE timeStampMap(_, _, _)
\* the Map built by the forEach over the first rows
timeStampMap(rows, fields, valueKey) == IF Len(rows) = 0 THEN <<>> ELSE ChartStep(timeStampMap(SubSeq(rows, 1, Len(rows) - 1), fields, valueKey), fields, valueKey, rows[Len(rows)])

\* getChartDataForValue: Array.from(timeStampMap.values())
getChartDataForValue(rows, fields, valueKey) == MapField(timeStampMap(rows, fields, valueKey), "v")

-----------------------------------------------------------------------------
(* Objects, URLSearchParams, JSON, localStorage *)

\* index of the first entry with key k, 0 when absent
IndexOfKey(o, k) == IF \E i \in DOMAIN o : o[i][1] = k THEN CHOOSE i \in DOMAIN o : o[i][1] = k /\ \A j \in 1..(i - 1) : o[j][1] # k ELSE 0

\* obj[k] and URLSearchParams.get(k): NullStr when absent
Get(o, k) == IF IndexOfKey(o, k) = 0 THEN NullStr ELSE o[IndexOfKey(o, k)][2]

\* URLSearchParams.has(k)
Has(o, k) == IndexOfKey(o, k) # 0

\* the truthiness of a `string | null | undefined`
Truthy(x) == x # NullStr /\ x # ""

\* obj[k] = v: an existing key keeps its place, a new key goes last
ObjSet(o, k, v) == IF IndexOfKey(o, k) = 0 THEN Append(o, <<k, v>>) ELSE [o EXCEPT ![IndexOfKey(o, k)] = <<k, v>>]

\* delete obj[k] and URLSearchParams.delete(k): every entry with key k goes
Delete(o, k) == SelectSeq(o, LAMBDA e : e[1] # k)

\* URLSearchParams.set(k, v): the first k takes the value and the others go, a new k goes last
ParamsSet(params, k, v) == IF IndexOfKey(params, k) = 0 THEN Append(params, <<k, v>>) ELSE SubSeq(params, 1, IndexOfKey(params, k) - 1) \o <<<<k, v>>>> \o Delete(SubSeq(params, IndexOfKey(params, k) + 1, Len(params)), k)

\* a JSON string literal (the model's strings need no escaping)
Quote(s) == "\"" \o s \o "\""

\* JSON.stringify of a filter object: the members in insertion order
JSONstringify(o) == "{" \o Join([i \in DOMAIN o |-> Quote(o[i][1]) \o ":" \o Quote(o[i][2])], ",") \o "}"

MaxRecent == 3

\* Array.prototype.slice(0, n)
Take(s, n) == SubSeq(s, 1, IF Len(s) < n THEN Len(s) ELSE n)

\* the mutant of addRecentFilter: the new entry goes last and the oldest is kept
addRecentFilterAppend(recent, filters) == IF Len(filters) = 0 THEN recent ELSE Take(SelectSeq(recent, LAMBDA f : JSONstringify(f) # JSONstringify(filters)) \o <<filters>>, MaxRecent)

\* addRecentFilter: the list stored after the call, given the list stored before
addRecentFilter(recent, filters) == IF Len(filters) = 0 THEN recent ELSE Take(<<filters>> \o SelectSeq(recent, LAMBDA f : JSONstringify(f) # JSONstringify(filters)), MaxRecent)

-----------------------------------------------------------------------------
(* The backend: the benchmarks table and the queries on it *)

RowLimit == 10000

MaxCombinations == 25

SampleLimit == 100

MaxExamples == 3

\* the spec's scenario: us/10 at t=1, eu/5 at t=1, us/20 at t=2
ScenarioRows == <<Row("API", 1, "us", NullStr, 10), Row("API", 1, "eu", NullStr, 5), Row("API", 2, "us", NullStr, 20)>>

\* a table with a few rows of each project
SmallTable == ScenarioRows \o <<Row("Web", 1, "us", "linux", 10), Row("Web", 2, "us", "linux", 20)>>

ComboName(i) == "r" \o ToString(i)

\* a table in which each project has n rows of n distinct combinations
GenTable(n) == [i \in 1..n |-> Row("API", 60 * i, ComboName(i), NullStr, i)] \o [i \in 1..n |-> Row("Web", 60 * i, "us", ComboName(i), i)]

\* a table with as many combinations as the ceiling allows
CeilingTable == GenTable(MaxCombinations)

\* a table with one combination more than the ceiling allows
ExcessTable == GenTable(MaxCombinations + 1)

\* the contents the benchmarks table may have when a query runs
Tables == {SmallTable, CeilingTable, ExcessTable}

\* the projects of the catalog
Catalog == {ProjWeb}

\* .order('project', {ascending: true}): the rows of the catalog in name order
CatalogInOrder == <<ProjWeb>>

RECURSIVE ApplyFilters(_, _, _)
\* activeCategoryFields.forEach: one .eq(key, selectedValue) per field with a truthy filter value
ApplyFilters(rows, fields, filters) ==
    IF Len(fields) = 0 THEN rows
    ELSE LET key == fields[1].key
             selectedValue == Get(filters, key)
         IN  ApplyFilters(IF Truthy(selectedValue) THEN SelectSeq(rows, LAMBDA b : b[key] = selectedValue) ELSE rows, Tail(fields), filters)

\* .eq('project', p), then the category filters
Matches(table, project, fields, filters) == ApplyFilters(SelectSeq(table, LAMBDA b : b.project = project.project), fields, filters)

\* whether each row's timestamp is at least its predecessor's
InOrder(rows) == \A i \in 2..Len(rows) : rows[i - 1].timestamp <= rows[i].timestamp

\* .order('timestamp', {ascending: true}): rows in order stay as they are
OrderByTimestamp(rows) == IF InOrder(rows) THEN rows ELSE SortSeq(rows, LAMBDA a, b : a.timestamp < b.timestamp)

\* .order('timestamp', {ascending: true}).limit(10000)
Query(table, project, fields, filters) == Take(OrderByTimestamp(Matches(table, project, fields, filters)), RowLimit)

Response(outcome, data, count) == [outcome |-> outcome, data |-> data, count |-> count]

\* what `await query` can give: a thrown exception, a backend error, or the
\* rows with the exact count. A result cut at the row limit is given by its
\* leading rows and a count above the limit.
BenchmarkResponses(project, fields, filters) ==
    LET results == {Query(t, project, fields, filters) : t \in Tables}
    IN  {Response("throw", <<>>, 0), Response("error", <<>>, 0)}
        \cup {Response("ok", data, Len(data)) : data \in results}
        \cup {Response("ok", data, RowLimit + 1) : data \in {x \in results : Len(x) > 0}}

\* the order of Array.prototype.sort on the strings of the model
Collation == <<"eu", "linux", "mac", "us">>

Rank(s) == CHOOSE i \in DOMAIN Collation : Collation[i] = s

RECURSIVE Distinct(_)
\* the distinct elements of a list, first occurrences kept
Distinct(s) == IF Len(s) = 0 THEN <<>> ELSE LET d == Distinct(SubSeq(s, 1, Len(s) - 1)) IN IF \E i \in DOMAIN d : d[i] = s[Len(s)] THEN d ELSE Append(d, s[Len(s)])

\* rpc get_distinct_categories: the distinct non-null values of a column of the project's rows
DistinctCategories(project, key) == Distinct(SelectSeq(MapField(SelectSeq(SmallTable, LAMBDA b : b.project = project.project), key), LAMBDA v : v # NullStr))

\* the sample query: the category columns of up to 100 rows of the project
SampleRows(project) == Take(SelectSeq(SmallTable, LAMBDA b : b.project = project.project), SampleLimit)

-----------------------------------------------------------------------------
(* BenchmarkCharts: helpers of the handlers *)

Request(kind, id, key, filters) == [kind |-> kind, id |-> id, key |-> key, filters |-> filters]

\* no join is open: none was started, or the last one has settled
NoResolution == [settled |-> TRUE, results |-> {}, examples |-> <<>>]

\* the values a settled get_distinct_categories promise holds for key k
ResultOf(results, k) == (CHOOSE r \in results : r[1] = k)[2]

TooManyMessage(n) == "Too many category combinations (" \o ToString(n) \o " found). Please select more specific filters to reduce combinations to 25 or fewer."

TruncatedMessage(count) == "Warning: Results limited to 10,000 of " \o ToString(count) \o " total records. Please apply more specific filters to see all data."

\* fetchError.message
FetchErrorMessage == "fetchError.message"

\* err.message, or 'An error occurred'
ExceptionMessage == "An error occurred"

\* the initial selectedCategories: the truthy URL values of the active fields, in field order
initialCategories(fields, params) == SelectSeq([i \in DOMAIN fields |-> <<fields[i].key, Get(params, fields[i].key)>>], LAMBDA e : Truthy(e[2]))

\* the auto-fetch effect's test
hasPreselectedCategories(fields, params) == \E i \in DOMAIN fields : Has(params, fields[i].key)

\* fullKey of fetchBenchmarks
fullKey(fields, benchmark) == MapJoin(fields, benchmark, 1)

\* uniqueCombos of fetchBenchmarks
uniqueCombos(fields, benchmarkData) == {fullKey(fields, benchmarkData[i]) : i \in DOMAIN benchmarkData}

\* the mutant of TooMany: no number of combinations is rejected
TooManyNever(size) == FALSE

\* the mutant of TooMany: the ceiling itself is rejected
TooManyAtCeiling(size) == size >= MaxCombinations

\* `uniqueCombos.size > 25`
TooMany(size) == size > MaxCombinations

\* the mutant of Truncated: the warning is never raised
TruncatedNever(count) == FALSE

\* `count && count > 10000`
Truncated(count) == count # 0 /\ count > RowLimit

\* the mutant of SyncParams: no key is written to the URL
SyncParamsNone(params, newCats, n) == params

RECURSIVE SyncParams(_, _, _)
\* handleCategoryChange: Object.keys(newCats).forEach(set or delete)
SyncParams(params, newCats, n) == IF n = 0 THEN params ELSE LET p == SyncParams(params, newCats, n - 1) IN IF Truthy(newCats[n][2]) THEN ParamsSet(p, newCats[n][1], newCats[n][2]) ELSE Delete(p, newCats[n][1])

\* the mutant of CleanParams: no old key is deleted
CleanParamsNone(params, prev, newCats, n) == params

RECURSIVE CleanParams(_, _, _, _)
\* handleCategoryChange: Object.keys(prev).forEach(delete when newCats has no truthy value)
CleanParams(params, prev, newCats, n) == IF n = 0 THEN params ELSE LET p == CleanParams(params, prev, newCats, n - 1) IN IF ~Truthy(Get(newCats, prev[n][1])) THEN Delete(p, prev[n][1]) ELSE p

\* the mutant of DeleteKeys: only the first key of the list is deleted
DeleteFirstKey(params, keys) == IF Len(keys) = 0 THEN params ELSE Delete(params, keys[1])

RECURSIVE DeleteKeys(_, _)
\* params.delete(key) for each key of the list
DeleteKeys(params, keys) == IF Len(keys) = 0 THEN params ELSE DeleteKeys(Delete(params, keys[1]), Tail(keys))

\* one iteration of exampleData.forEach: acc is [examples, keys]
ExampleStep(acc, fields, row) ==
    LET present == SelectSeq([i \in DOMAIN fields |-> <<fields[i].key, row[fields[i].key]>>], LAMBDA e : Truthy(e[2]))
        comboKey == Join([i \in DOMAIN present |-> present[i][1] \o ":" \o present[i][2] \o "|"], "")
    IN  IF Len(present) > 0 /\ Len(acc.examples) < MaxExamples /\ comboKey \notin acc.keys
        THEN [examples |-> Append(acc.examples, present), keys |-> acc.keys \cup {comboKey}]
        ELSE acc

RECURSIVE ExamplesRange(_, _, _, _, _)
\* the iterations of exampleData.forEach over rows[lo..hi], in order: the
\* first half of the range, and once its outcome is there, the second half
\* from that outcome
ExamplesRange(acc, fields, rows, lo, hi) ==
    IF lo > hi THEN acc
    ELSE IF lo = hi THEN ExampleStep(acc, fields, rows[lo])
    ELSE LET mid == (lo + hi) \div 2
             firstHalf == ExamplesRange(acc, fields, rows, lo, mid)
         IN  IF Len(firstHalf.examples) >= 0 THEN ExamplesRange(firstHalf, fields, rows, mid + 1, hi) ELSE firstHalf

\* exampleData.forEach from the empty list and the empty Set of keys
ExamplesFold(fields, rows) == ExamplesRange([examples |-> <<>>, keys |-> {}], fields, rows, 1, Len(rows))

\* the examples generated from the sample data
Examples(fields, rows) == ExamplesFold(fields, rows).examples

\* what the component renders
View ==
    IF selectedProject = <<>> THEN "projects"
    ELSE IF ~showCharts THEN (IF loading THEN "filters-loading" ELSE "filters")
    ELSE IF loading THEN "chart-loading"
    ELSE IF error # NullStr THEN "chart-error"
    ELSE IF Len(benchmarks) = 0 THEN "chart-nodata"
    ELSE "charts"

\* no aggregation call has been made
NotRendered == [fn |-> "", valueKey |-> "", categoryKey |-> "", result |-> <<>>]

-----------------------------------------------------------------------------
(* The application: App and BenchmarkCharts handlers *)

MaxFetches == 2

\* ProjectSelector is not mounted: a project is selected
NoSelector == [projects |-> <<>>, loading |-> FALSE, error |-> NullStr, awaited |-> FALSE]

\* ProjectSelector after its mount: the initial state, and fetchProjects
\* started by the effect
SelectorMounted == [projects |-> <<>>, loading |-> TRUE, error |-> NullStr, awaited |-> TRUE]

\* the URLs the page may be opened with
InitialURLs == {<<>>, <<<<"category2", "linux">>, <<"category1", "us">>>>, <<<<"category1", "">>>>}

\* the recent-filters lists earlier visits may have left in localStorage:
\* none, or the list three fetches with three different filter sets leave
InitialStores == {<<>>, <<<<<<"category1", "us">>, <<"category2", "linux">>>>, <<<<"category2", "linux">>>>, <<<<"category1", "us">>>>>>}

Init ==
    /\ url \in InitialURLs
    /\ localStorage \in {[p \in {"API", "Web"} |-> IF p = "Web" THEN l ELSE <<>>] : l \in InitialStores}
    /\ selectedProject = <<>>
    /\ selectedCategories = <<>>
    /\ categories = <<>>
    /\ exampleFilters = <<>>
    /\ recentFilters = <<>>
    /\ benchmarks = <<>>
    /\ loading = FALSE
    /\ error = NullStr
    /\ showCharts = FALSE
    /\ pending = {}
    /\ resolution = NoResolution
    /\ fetches = 0
    /\ projectSelector = SelectorMounted
    /\ rendered = NotRendered

\* fetchBenchmarks up to its await: the state updates, the recent-filters
\* update and the query, started from the given pending set and recent list
FetchBenchmarksStart(project, effectiveFilters, pendingBefore, recentBefore) ==
    /\ fetches < MaxFetches
    /\ loading' = TRUE
    /\ error' = NullStr
    /\ localStorage' = [localStorage EXCEPT ![project.project] = IF Len(effectiveFilters) > 0 THEN addRecentFilter(@, effectiveFilters) ELSE @]
    /\ recentFilters' = IF Len(effectiveFilters) > 0 THEN localStorage'[project.project] ELSE recentBefore
    /\ pending' = pendingBefore \cup {Request("benchmarks", fetches + 1, "", effectiveFilters)}
    /\ fetches' = fetches + 1

\* what ProjectSelector renders
SelectorView ==
    IF selectedProject # <<>> THEN "none"
    ELSE IF projectSelector.loading THEN "loading"
    ELSE IF Truthy(projectSelector.error) THEN "error"
    ELSE "list"

\* fetchProjects from its await on: the projects in name order, or the error
\* of the query thrown and caught; loading is set to false in either case
ProjectsResponse(outcome) ==
    /\ selectedProject = <<>>
    /\ projectSelector.awaited
    /\ projectSelector' = IF outcome = "ok"
                          THEN [projectSelector EXCEPT !.projects = CatalogInOrder, !.loading = FALSE, !.awaited = FALSE]
                          ELSE [projectSelector EXCEPT !.error = ExceptionMessage, !.loading = FALSE, !.awaited = FALSE]
    /\ UNCHANGED <<url, localStorage, selectedProject, selectedCategories, categories, exampleFilters, recentFilters, benchmarks, loading, error, showCharts, pending, resolution, fetches, rendered>>

\* the Retry button of the error panel: fetchProjects up to its await
RetryProjects ==
    /\ SelectorView = "error"
    /\ projectSelector' = [projectSelector EXCEPT !.loading = TRUE, !.awaited = TRUE]
    /\ UNCHANGED <<url, localStorage, selectedProject, selectedCategories, categories, exampleFilters, recentFilters, benchmarks, loading, error, showCharts, pending, resolution, fetches, rendered>>

\* App.handleProjectSelect, then the mount of BenchmarkCharts: the initial
\* state, the effect starting fetchCategoriesAndExamples and reading the recent
\* filters, and the auto-fetch effect
handleProjectSelect(project) ==
    LET params == ParamsSet(url, "project", project.project)
        fields == activeCategoryFields(project)
        restored == initialCategories(fields, params)
        requests == {Request("distinct", 0, fields[i].key, <<>>) : i \in DOMAIN fields} \cup {Request("examples", 0, "", <<>>)}
    IN  /\ selectedProject = <<>>
        /\ SelectorView = "list"
        /\ \E i \in DOMAIN projectSelector.projects : projectSelector.projects[i] = project
        /\ projectSelector' = NoSelector
        /\ selectedProject' = <<project>>
        /\ url' = params
        /\ selectedCategories' = restored
        /\ categories' = <<>>
        /\ exampleFilters' = <<>>
        /\ benchmarks' = <<>>
        /\ showCharts' = FALSE
        /\ resolution' = [settled |-> FALSE, results |-> {}, examples |-> <<>>]
        /\ IF hasPreselectedCategories(fields, params)
           THEN FetchBenchmarksStart(project, restored, requests, localStorage[project.project])
           ELSE /\ loading' = TRUE
                /\ error' = NullStr
                /\ recentFilters' = localStorage[project.project]
                /\ pending' = requests
                /\ UNCHANGED <<localStorage, fetches>>
        /\ UNCHANGED rendered

\* the mutant of handleBackToProjects: the category parameters stay in the URL
handleBackToProjectsKeepingFilters ==
    /\ selectedProject # <<>>
    /\ selectedProject' = <<>>
    /\ url' = Delete(url, "project")
    /\ selectedCategories' = <<>>
    /\ categories' = <<>>
    /\ exampleFilters' = <<>>
    /\ recentFilters' = <<>>
    /\ benchmarks' = <<>>
    /\ loading' = FALSE
    /\ error' = NullStr
    /\ showCharts' = FALSE
    /\ pending' = {}
    /\ resolution' = NoResolution
    /\ projectSelector' = SelectorMounted
    /\ UNCHANGED <<localStorage, fetches, rendered>>

\* App.handleBackToProjects; BenchmarkCharts unmounts, and the responses still
\* awaited only set the state of the unmounted component
handleBackToProjects ==
    /\ selectedProject # <<>>
    /\ selectedProject' = <<>>
    /\ url' = DeleteKeys(Delete(url, "project"), CategoryKeys)
    /\ selectedCategories' = <<>>
    /\ categories' = <<>>
    /\ exampleFilters' = <<>>
    /\ recentFilters' = <<>>
    /\ benchmarks' = <<>>
    /\ loading' = FALSE
    /\ error' = NullStr
    /\ showCharts' = FALSE
    /\ pending' = {}
    /\ resolution' = NoResolution
    /\ projectSelector' = SelectorMounted
    /\ UNCHANGED <<localStorage, fetches, rendered>>

\* the try block of fetchCategoriesAndExamples after Promise.all resolves
ResolutionSuccess(project, res) ==
    LET fields == activeCategoryFields(project)
    IN  /\ categories' = [i \in DOMAIN fields |-> <<fields[i].key, ResultOf(res.results, fields[i].key)>>]
        /\ exampleFilters' = IF res.examples[1] = "ok" THEN Examples(fields, SampleRows(project)) ELSE exampleFilters
        /\ UNCHANGED error

\* the mutant of DistinctResponse: each dimension's values are stored as they arrive
DistinctResponseEager(req, outcome) ==
    LET values == SortSeq(DistinctCategories(selectedProject[1], req.key), LAMBDA a, b : Rank(a) < Rank(b))
    IN  /\ req \in pending
        /\ req.kind = "distinct"
        /\ pending' = pending \ {req}
        /\ categories' = IF outcome = "ok" THEN ObjSet(categories, req.key, values) ELSE categories
        /\ error' = IF outcome = "error" THEN FetchErrorMessage ELSE error
        /\ loading' = FALSE
        /\ UNCHANGED <<url, localStorage, selectedProject, selectedCategories, exampleFilters, recentFilters, benchmarks, showCharts, resolution, fetches, rendered, projectSelector>>

\* one get_distinct_categories response arrives
DistinctResponse(req, outcome) ==
    LET project == selectedProject[1]
        fields == activeCategoryFields(project)
        values == SortSeq(DistinctCategories(project, req.key), LAMBDA a, b : Rank(a) < Rank(b))
        res == [resolution EXCEPT !.results = @ \cup {<<req.key, values>>}]
    IN  /\ req \in pending
        /\ req.kind = "distinct"
        /\ pending' = pending \ {req}
        /\ IF resolution.settled
           THEN UNCHANGED <<resolution, categories, exampleFilters, error, loading>>
           ELSE IF outcome = "error"
           THEN /\ resolution' = NoResolution
                /\ error' = FetchErrorMessage
                /\ loading' = FALSE
                /\ UNCHANGED <<categories, exampleFilters>>
           ELSE IF Cardinality(res.results) = Len(fields) /\ Len(res.examples) = 1
           THEN /\ resolution' = NoResolution
                /\ ResolutionSuccess(project, res)
                /\ loading' = FALSE
           ELSE /\ resolution' = res
                /\ UNCHANGED <<categories, exampleFilters, error, loading>>
        /\ UNCHANGED <<url, localStorage, selectedProject, selectedCategories, recentFilters, benchmarks, showCharts, fetches, rendered, projectSelector>>

\* the sample query's response arrives
ExamplesResponse(req, outcome) ==
    LET project == selectedProject[1]
        fields == activeCategoryFields(project)
        res == [resolution EXCEPT !.examples = <<outcome>>]
    IN  /\ req \in pending
        /\ req.kind = "examples"
        /\ pending' = pending \ {req}
        /\ IF resolution.settled
           THEN UNCHANGED <<resolution, categories, exampleFilters, error, loading>>
           ELSE IF Cardinality(res.results) = Len(fields)
           THEN /\ resolution' = NoResolution
                /\ ResolutionSuccess(project, res)
                /\ loading' = FALSE
           ELSE /\ resolution' = res
                /\ UNCHANGED <<categories, exampleFilters, error, loading>>
        /\ UNCHANGED <<url, localStorage, selectedProject, selectedCategories, recentFilters, benchmarks, showCharts, fetches, rendered, projectSelector>>

\* the mutant of BenchmarksResponse: a failed query clears the stored rows
BenchmarksResponseClearing(req, resp) ==
    LET size == Cardinality(uniqueCombos(activeCategoryFields(selectedProject[1]), resp.data))
    IN  /\ req \in pending
        /\ req.kind = "benchmarks"
        /\ pending' = pending \ {req}
        /\ loading' = FALSE
        /\ IF resp.outcome \in {"throw", "error"}
           THEN error' = (IF resp.outcome = "throw" THEN ExceptionMessage ELSE FetchErrorMessage) /\ benchmarks' = <<>> /\ UNCHANGED showCharts
           ELSE IF TooMany(size)
           THEN error' = TooManyMessage(size) /\ UNCHANGED <<benchmarks, showCharts>>
           ELSE /\ error' = IF Truncated(resp.count) THEN TruncatedMessage(resp.count) ELSE error
                /\ benchmarks' = resp.data
                /\ showCharts' = TRUE
        /\ UNCHANGED <<url, localStorage, selectedProject, selectedCategories, categories, exampleFilters, recentFilters, resolution, fetches, rendered, projectSelector>>

\* the mutant of BenchmarksResponse: the return after the too-many-combinations
\* error leaves loading as it is
BenchmarksResponseStillLoading(req, resp) ==
    LET fields == activeCategoryFields(selectedProject[1])
        size == Cardinality(uniqueCombos(fields, resp.data))
    IN  /\ req \in pending
        /\ req.kind = "benchmarks"
        /\ pending' = pending \ {req}
        /\ IF resp.outcome = "throw"
           THEN error' = ExceptionMessage /\ loading' = FALSE /\ UNCHANGED <<benchmarks, showCharts>>
           ELSE IF resp.outcome = "error"
           THEN error' = FetchErrorMessage /\ loading' = FALSE /\ UNCHANGED <<benchmarks, showCharts>>
           ELSE IF TooMany(size)
           THEN error' = TooManyMessage(size) /\ UNCHANGED <<loading, benchmarks, showCharts>>
           ELSE /\ error' = IF Truncated(resp.count) THEN TruncatedMessage(resp.count) ELSE error
                /\ loading' = FALSE
                /\ benchmarks' = resp.data
                /\ showCharts' = TRUE
        /\ UNCHANGED <<url, localStorage, selectedProject, selectedCategories, categories, exampleFilters, recentFilters, resolution, fetches, rendered, projectSelector>>

\* the mutant of BenchmarksResponse: the response of a request that is not the
\* latest one is dropped
BenchmarksResponseLatestWins(req, resp) ==
    LET fields == activeCategoryFields(selectedProject[1])
        size == Cardinality(uniqueCombos(fields, resp.data))
    IN  /\ req \in pending
        /\ req.kind = "benchmarks"
        /\ pending' = pending \ {req}
        /\ IF req.id < fetches
           THEN UNCHANGED <<loading, error, benchmarks, showCharts>>
           ELSE /\ loading' = FALSE
                /\ IF resp.outcome = "throw"
                   THEN error' = ExceptionMessage /\ UNCHANGED <<benchmarks, showCharts>>
                   ELSE IF resp.outcome = "error"
                   THEN error' = FetchErrorMessage /\ UNCHANGED <<benchmarks, showCharts>>
                   ELSE IF TooMany(size)
                   THEN error' = TooManyMessage(size) /\ UNCHANGED <<benchmarks, showCharts>>
                   ELSE /\ error' = IF Truncated(resp.count) THEN TruncatedMessage(resp.count) ELSE error
                        /\ benchmarks' = resp.data
                        /\ showCharts' = TRUE
        /\ UNCHANGED <<url, localStorage, selectedProject, selectedCategories, categories, exampleFilters, recentFilters, resolution, fetches, rendered, projectSelector>>

\* fetchBenchmarks from its await on
BenchmarksResponse(req, resp) ==
    LET fields == activeCategoryFields(selectedProject[1])
        size == Cardinality(uniqueCombos(fields, resp.data))
    IN  /\ req \in pending
        /\ req.kind = "benchmarks"
        /\ pending' = pending \ {req}
        /\ loading' = FALSE
        /\ IF resp.outcome = "throw"
           THEN error' = ExceptionMessage /\ UNCHANGED <<benchmarks, showCharts>>
           ELSE IF resp.outcome = "error"
           THEN error' = FetchErrorMessage /\ UNCHANGED <<benchmarks, showCharts>>
           ELSE IF TooMany(size)
           THEN error' = TooManyMessage(size) /\ UNCHANGED <<benchmarks, showCharts>>
           ELSE /\ error' = IF Truncated(resp.count) THEN TruncatedMessage(resp.count) ELSE error
                /\ benchmarks' = resp.data
                /\ showCharts' = TRUE
        /\ UNCHANGED <<url, localStorage, selectedProject, selectedCategories, categories, exampleFilters, recentFilters, resolution, fetches, rendered, projectSelector>>

\* the options of a filter's select element
Options(key) == {""} \cup (IF Has(categories, key) THEN {Get(categories, key)[i] : i \in DOMAIN Get(categories, key)} ELSE {})

\* the option a select shows: its value when that is an option, else the first option
Displayed(key) == IF Get(selectedCategories, key) \in Options(key) THEN Get(selectedCategories, key) ELSE ""

\* a select's onChange
handleCategoryChange(categoryKey, value) ==
    LET prev == selectedCategories
        newCats == IF Truthy(value) THEN ObjSet(prev, categoryKey, value) ELSE Delete(prev, categoryKey)
    IN  /\ View = "filters"
        /\ \E i \in DOMAIN activeCategoryFields(selectedProject[1]) : activeCategoryFields(selectedProject[1])[i].key = categoryKey
        /\ value \in Options(categoryKey)
        /\ value # Displayed(categoryKey)
        /\ selectedCategories' = newCats
        /\ url' = CleanParams(SyncParams(url, newCats, Len(newCats)), prev, newCats, Len(prev))
        /\ UNCHANGED <<localStorage, selectedProject, categories, exampleFilters, recentFilters, benchmarks, loading, error, showCharts, pending, resolution, fetches, rendered, projectSelector>>

\* the Show Charts button
handleShowCharts ==
    /\ View = "filters"
    /\ FetchBenchmarksStart(selectedProject[1], selectedCategories, pending, recentFilters)
    /\ UNCHANGED <<url, selectedProject, selectedCategories, categories, exampleFilters, benchmarks, showCharts, resolution, rendered, projectSelector>>

\* a Recently Used or Examples button
applyFilterSet(filters) ==
    /\ View = "filters"
    /\ selectedCategories' = filters
    /\ url' = SyncParams(<<>>, filters, Len(filters))
    /\ FetchBenchmarksStart(selectedProject[1], filters, pending, recentFilters)
    /\ UNCHANGED <<selectedProject, categories, exampleFilters, benchmarks, showCharts, resolution, rendered, projectSelector>>

\* the Reset All and Try Different Filters buttons
handleResetFilters ==
    /\ selectedProject # <<>>
    /\ showCharts
    /\ selectedCategories' = <<>>
    /\ showCharts' = FALSE
    /\ benchmarks' = <<>>
    /\ url' = DeleteKeys(url, MapField(activeCategoryFields(selectedProject[1]), "key"))
    /\ UNCHANGED <<localStorage, selectedProject, categories, exampleFilters, recentFilters, loading, error, pending, resolution, fetches, rendered, projectSelector>>

\* the Change Filters button
handleChangeFilters ==
    /\ selectedProject # <<>>
    /\ showCharts
    /\ showCharts' = FALSE
    /\ UNCHANGED <<url, localStorage, selectedProject, selectedCategories, categories, exampleFilters, recentFilters, benchmarks, loading, error, pending, resolution, fetches, rendered, projectSelector>>

\* the filter sets offered as suggestions
Suggestions == {recentFilters[i] : i \in DOMAIN recentFilters} \cup {exampleFilters[i] : i \in DOMAIN exampleFilters}

Next ==
    \/ \E outcome \in {"ok", "error"} : ProjectsResponse(outcome)
    \/ RetryProjects
    \/ \E project \in Catalog : handleProjectSelect(project)
    \/ handleBackToProjects
    \/ \E req \in pending, outcome \in {"ok", "error"} : DistinctResponse(req, outcome)
    \/ \E req \in pending, outcome \in {"ok", "error"} : ExamplesResponse(req, outcome)
    \/ \E req \in pending : \E resp \in BenchmarkResponses(selectedProject[1], activeCategoryFields(selectedProject[1]), req.filters) : BenchmarksResponse(req, resp)
    \/ \E i \in DOMAIN CategoryKeys : \E value \in Options(CategoryKeys[i]) : handleCategoryChange(CategoryKeys[i], value)
    \/ handleShowCharts
    \/ \E filters \in Suggestions : applyFilterSet(filters)
    \/ handleResetFilters
    \/ handleChangeFilters

Spec == Init /\ [][Next]_vars

\* a first visit: the browser has stored no recent filters yet
InitFirstVisit == Init /\ \A p \in DOMAIN localStorage : localStorage[p] = <<>>

SpecFirstVisit == InitFirstVisit /\ [][Next]_vars

-----------------------------------------------------------------------------
(* Bounds and input domains of the aggregation specification *)

MaxRows == 3

AggTimestamps == {1, 2, 61}

AggRegions == {"us", "eu"}

AggValues == {NullNum, 5, 10, 20}

AggRowDomain == {Row("API", t, c, NullStr, v) : t \in AggTimestamps, c \in AggRegions, v \in AggValues}

\* `.order('timestamp', {ascending: true})`: rows arrive in ascending order
Ascending(rows) == \A i, j \in DOMAIN rows : i < j => rows[i].timestamp <= rows[j].timestamp

AggRowSeqs == UNION {{s \in [1..n -> AggRowDomain] : Ascending(s)} : n \in 0..MaxRows}

\* the UI state of a chart view showing the stored rows of project API
InitAgg ==
    /\ url = <<<<"project", "API">>>>
    /\ localStorage = [p \in {"API", "Web"} |-> <<>>]
    /\ selectedProject = <<ProjAPI>>
    /\ selectedCategories = <<>>
    /\ categories = <<>>
    /\ exampleFilters = <<>>
    /\ recentFilters = <<>>
    /\ benchmarks \in AggRowSeqs
    /\ loading = FALSE
    /\ error = NullStr
    /\ showCharts = TRUE
    /\ pending = {}
    /\ resolution = NoResolution
    /\ fetches = 0
    /\ projectSelector = NoSelector
    /\ rendered = NotRendered

\* the combination keys of the stored rows (uniqueCategoryCombinations)
CombinationKeys(rows, fields) == {getCategoryKey(fields, rows[i]) : i \in DOMAIN rows}

\* render: one stat card, calculateStats(valueKey, combo.key)
RenderStats(valueKey, categoryKey) ==
    /\ selectedProject # <<>>
    /\ rendered' = [fn |-> "calculateStats", valueKey |-> valueKey, categoryKey |-> categoryKey, result |-> calculateStats(benchmarks, activeCategoryFields(selectedProject[1]), valueKey, categoryKey)]
    /\ UNCHANGED uiVars

\* render: one chart, getChartDataForValue(valueKey)
RenderChart(valueKey) ==
    /\ selectedProject # <<>>
    /\ rendered' = [fn |-> "getChartDataForValue", valueKey |-> valueKey, categoryKey |-> "", result |-> getChartDataForValue(benchmarks, activeCategoryFields(selectedProject[1]), valueKey)]
    /\ UNCHANGED uiVars

NextAgg ==
    \/ \E f \in {activeValueFields(selectedProject[1])[i] : i \in DOMAIN activeValueFields(selectedProject[1])}, c \in AggRegions : RenderStats(f.key, c)
    \/ \E f \in {activeValueFields(selectedProject[1])[i] : i \in DOMAIN activeValueFields(selectedProject[1])} : RenderChart(f.key)

SpecAgg == InitAgg /\ [][NextAgg]_vars

-----------------------------------------------------------------------------
(* Aggregation claims, checked under SpecAgg *)

\* the active category fields of the mounted project
Fields == activeCategoryFields(selectedProject[1])

\* indices of the stored rows of combination c with a non-null value for v
NonNullRows(c, v) == {i \in DOMAIN benchmarks : getCategoryKey(Fields, benchmarks[i]) = c /\ benchmarks[i][v] # NullNum}

RECURSIVE SumOver(_, _)
\* the sum of the values for v of the rows with index in S
SumOver(S, v) == IF S = {} THEN 0 ELSE LET i == CHOOSE x \in S : TRUE IN benchmarks[i][v] + SumOver(S \ {i}, v)

StatsRendered == rendered.fn = "calculateStats"

ChartRendered == rendered.fn = "getChartDataForValue"

\* C4: calculateStats(v, c).count is the number of rows of combination c whose
\* value for v is non-null, and the result is null when that number is 0
C4_CountIsNonNullObservations ==
    StatsRendered =>
        LET n == Cardinality(NonNullRows(rendered.categoryKey, rendered.valueKey))
        IN  IF n = 0 THEN Len(rendered.result) = 0
            ELSE Len(rendered.result) = 1 /\ rendered.result[1].count = n

\* statistics of a combination that has null and non-null rows, beside another combination
C4_Witness ==
    /\ StatsRendered
    /\ Len(rendered.result) = 1
    /\ rendered.result[1].count = 1
    /\ \E i \in DOMAIN benchmarks : getCategoryKey(Fields, benchmarks[i]) = rendered.categoryKey /\ benchmarks[i][rendered.valueKey] = NullNum
    /\ \E i \in DOMAIN benchmarks : getCategoryKey(Fields, benchmarks[i]) # rendered.categoryKey /\ benchmarks[i][rendered.valueKey] # NullNum

\* C5: with the rows in ascending timestamp order, calculateStats(v, c).latest is
\* the value of a row of combination c with a non-null value for v that no other
\* such row follows in time, even when later rows of c have a null value for v
C5_LatestIsLastNonNull ==
    (StatsRendered /\ Len(rendered.result) = 1) =>
        \E i \in NonNullRows(rendered.categoryKey, rendered.valueKey) :
            /\ rendered.result[1].latest = benchmarks[i][rendered.valueKey]
            /\ \A j \in NonNullRows(rendered.categoryKey, rendered.valueKey) : benchmarks[j].timestamp <= benchmarks[i].timestamp

\* the combination's last row in time has a null value, and latest is the earlier value
C5_Witness ==
    /\ StatsRendered
    /\ Len(rendered.result) = 1
    /\ Len(benchmarks) = 3
    /\ getCategoryKey(Fields, benchmarks[1]) = rendered.categoryKey
    /\ getCategoryKey(Fields, benchmarks[2]) = rendered.categoryKey
    /\ getCategoryKey(Fields, benchmarks[3]) = rendered.categoryKey
    /\ benchmarks[1].timestamp < benchmarks[2].timestamp
    /\ benchmarks[2].timestamp < benchmarks[3].timestamp
    /\ benchmarks[1][rendered.valueKey] # NullNum
    /\ benchmarks[2][rendered.valueKey] # NullNum
    /\ benchmarks[2][rendered.valueKey] # benchmarks[1][rendered.valueKey]
    /\ benchmarks[3][rendered.valueKey] = NullNum
    /\ rendered.result[1].latest = benchmarks[2][rendered.valueKey]

\* C6: min and max are the smallest and largest non-null values of the
\* combination, avg is their sum divided by their count, rows of other
\* combinations do not contribute, and the scenario gives for "us"
\* latest=20, avg=15, min=10, max=20, count=2
C6_MinMaxAvg ==
    (StatsRendered /\ Len(rendered.result) = 1) =>
        LET S == NonNullRows(rendered.categoryKey, rendered.valueKey)
            r == rendered.result[1]
        IN  /\ \E i \in S : r.min = benchmarks[i][rendered.valueKey]
            /\ \A i \in S : r.min <= benchmarks[i][rendered.valueKey]
            /\ \E i \in S : r.max = benchmarks[i][rendered.valueKey]
            /\ \A i \in S : r.max >= benchmarks[i][rendered.valueKey]
            /\ r.avg.num = SumOver(S, rendered.valueKey)
            /\ r.avg.den = Cardinality(S)
            /\ (benchmarks = ScenarioRows /\ rendered.categoryKey = "us") => (r.latest = 20 /\ r.avg.num = 15 * r.avg.den /\ r.min = 10 /\ r.max = 20 /\ r.count = 2)

\* the scenario's rows are stored and the statistics of "us" are rendered
C6_Witness ==
    /\ StatsRendered
    /\ benchmarks = ScenarioRows
    /\ rendered.categoryKey = "us"
    /\ rendered.valueKey = "value1"
    /\ Len(rendered.result) = 1
    /\ rendered.result[1].avg = [num |-> 30, den |-> 2]

\* the rows with a non-null value for v
WithoutNullRows(rows, v) == SelectSeq(rows, LAMBDA b : b[v] # NullNum)

\* the series value a chart draws for combination c in the bucket labelled t:
\* a missing bucket, a missing key and null all draw a gap
PointAt(chart, t, c) == IF \E i \in DOMAIN chart : chart[i].timestamp = t /\ c \in DOMAIN chart[i] THEN LET i == CHOOSE x \in DOMAIN chart : chart[x].timestamp = t /\ c \in DOMAIN chart[x] IN chart[i][c] ELSE NullNum

\* C7: the chart point of every bucket and combination is the one the rows
\* with a non-null value alone produce
C7_NullRowsExcludedFromSeries ==
    ChartRendered =>
        \A t \in {FormatMinute(x) : x \in AggTimestamps}, c \in AggRegions :
            PointAt(rendered.result, t, c) = PointAt(getChartDataForValue(WithoutNullRows(benchmarks, rendered.valueKey), Fields, rendered.valueKey), t, c)

\* the indices of the rows that open a bucket, in row order
BucketOpeners == {i \in DOMAIN benchmarks : \A j \in 1..(i - 1) : FormatMinute(benchmarks[j].timestamp) # FormatMinute(benchmarks[i].timestamp)}

\* the minute of the k-th bucket in first-occurrence order
BucketMinute(k) == FormatMinute(benchmarks[CHOOSE i \in BucketOpeners : Cardinality({j \in BucketOpeners : j <= i}) = k].timestamp)

\* the indices of the rows of minute t and combination c
RowsOf(t, c) == {i \in DOMAIN benchmarks : FormatMinute(benchmarks[i].timestamp) = t /\ getCategoryKey(Fields, benchmarks[i]) = c}

\* C8: the chart has one data point per bucket, each holding one value per
\* combination that has rows in the bucket: the value of the last such row
C8_LastWriteWins ==
    ChartRendered =>
        /\ Len(rendered.result) = Cardinality(BucketOpeners)
        /\ \A k \in DOMAIN rendered.result : \A c \in AggRegions :
            LET S == RowsOf(BucketMinute(k), c)
            IN  IF S = {} THEN c \notin DOMAIN rendered.result[k]
                ELSE /\ c \in DOMAIN rendered.result[k]
                     /\ rendered.result[k][c] = benchmarks[CHOOSE i \in S : \A j \in S : j <= i][rendered.valueKey]

\* two rows of one combination with different values share a bucket
C8_Witness ==
    /\ ChartRendered
    /\ Len(benchmarks) = 3
    /\ Len(rendered.result) = 2
    /\ getCategoryKey(Fields, benchmarks[1]) = "us"
    /\ getCategoryKey(Fields, benchmarks[2]) = "us"
    /\ FormatMinute(benchmarks[1].timestamp) = FormatMinute(benchmarks[2].timestamp)
    /\ benchmarks[1].value1 = 10
    /\ benchmarks[2].value1 = 20
    /\ rendered.result[1]["us"] = 20

-----------------------------------------------------------------------------
(* Fetch and recent-filters claims, checked under Spec *)

\* the number of distinct combination keys among rows
CombinationCount(rows) == Cardinality(CombinationKeys(rows, Fields))

\* the responses a pending benchmark request can get
ResponsesTo(req) == BenchmarkResponses(selectedProject[1], Fields, req.filters)

\* the benchmark requests whose response arrives in this step
Answered == IF selectedProject' = <<>> THEN {} ELSE {req \in pending \ pending' : req.kind = "benchmarks"}

\* C1: a fetch whose query succeeds stores the rows and shows the charts if the
\* rows have at most 25 distinct combination keys; with 26 or more it stores
\* nothing, leaves showCharts as it was and sets the too-many-combinations error
C1_AcceptIffAtMostCeiling ==
    [][\A req \in Answered : \A resp \in ResponsesTo(req) :
        (resp.outcome = "ok" /\ BenchmarksResponse(req, resp)) =>
            IF CombinationCount(resp.data) <= 25
            THEN benchmarks' = resp.data /\ showCharts'
            ELSE benchmarks' = benchmarks /\ showCharts' = showCharts /\ error' = TooManyMessage(CombinationCount(resp.data))]_vars

\* rows with exactly 25 combinations have been accepted
C1_Witness ==
    /\ selectedProject # <<>>
    /\ showCharts
    /\ ~loading
    /\ Len(benchmarks) = 25
    /\ CombinationCount(benchmarks) = 25

\* C2: once a fetch that returned more than 25 combinations has completed,
\* showCharts is false and the error is the too-many-combinations error
C2_TooManyHidesCharts ==
    [][\A req \in Answered : \A resp \in ResponsesTo(req) :
        (resp.outcome = "ok" /\ CombinationCount(resp.data) > 25 /\ BenchmarksResponse(req, resp)) =>
            (~showCharts' /\ error' = TooManyMessage(CombinationCount(resp.data)))]_vars

\* C3: once a fetch whose exact count exceeds 10,000 and whose rows have at
\* most 25 combinations has completed, the warning is displayed and the charts
\* of the rows are rendered
C3_TruncatedStillRenders ==
    [][\A req \in Answered : \A resp \in ResponsesTo(req) :
        (resp.outcome = "ok" /\ resp.count > 10000 /\ CombinationCount(resp.data) <= 25 /\ BenchmarksResponse(req, resp)) =>
            (error' = TruncatedMessage(resp.count) /\ benchmarks' = resp.data /\ View' = "charts")]_vars

\* value-equality of two filter sets: the same key/value pairs in any order
SameFilters(f, g) == {f[i] : i \in DOMAIN f} = {g[i] : i \in DOMAIN g}

\* C9: a project's recent-filters list never has more than 3 entries and never
\* holds two value-equal entries
C9_RecentBoundedAndDistinct ==
    \A p \in DOMAIN localStorage :
        /\ Len(localStorage[p]) <= 3
        /\ \A i, j \in DOMAIN localStorage[p] : SameFilters(localStorage[p][i], localStorage[p][j]) => i = j

\* the entries of list other than F, in list order
Without(list, F) == SelectSeq(list, LAMBDA f : f # F)

\* C10: right after a fetch is started with a non-empty filter set F, F is the
\* first entry of the project's list and the other entries follow in their
\* previous relative order; a fetch started with the empty filter set leaves
\* the list as it was; no entry is ever empty
C10_MostRecentFirst ==
    [][/\ \A p \in DOMAIN localStorage' : \A i \in DOMAIN localStorage'[p] : Len(localStorage'[p][i]) > 0
       /\ \A req \in pending' \ pending : req.kind = "benchmarks" =>
            LET p == selectedProject'[1].project
            IN  IF Len(req.filters) = 0 THEN localStorage' = localStorage
                ELSE /\ localStorage'[p][1] = req.filters
                     /\ Tail(localStorage'[p]) = Take(Without(localStorage[p], req.filters), 2)
                     /\ \A q \in DOMAIN localStorage \ {p} : localStorage'[q] = localStorage[q]]_vars

\* a fetch with the oldest entry of a full list has moved it to the front
C10_Witness ==
    /\ fetches = 1
    /\ localStorage["Web"] = <<<<<<"category1", "us">>>>, <<<<"category1", "us">>, <<"category2", "linux">>>>, <<<<"category2", "linux">>>>>>

-----------------------------------------------------------------------------
(* Claims about the filter state and the URL *)

\* the keys of an object or of a parameter list
KeysOf(o) == {o[i][1] : i \in DOMAIN o}

\* C11: a reset leaves the empty filter set, a URL without any of the category
\* keys that were set (none of the filter state's keys and none of the active
\* fields' keys), a hidden chart view and no stored rows
C11_ResetClearsFilters ==
    [][handleResetFilters =>
        /\ selectedCategories' = <<>>
        /\ \A k \in KeysOf(selectedCategories) \cup {Fields[i].key : i \in DOMAIN Fields} : ~Has(url', k)
        /\ ~showCharts'
        /\ benchmarks' = <<>>]_vars

\* a reset has acted on a chart view that showed the rows fetched with filters
\* selected in the panel: the warning of that fetch is still set, and only a
\* reset empties the stored rows while the project stays selected
C11_Witness ==
    /\ selectedProject # <<>>
    /\ localStorage["Web"] # <<>>
    /\ localStorage["Web"][1] = <<<<"category2", "linux">>, <<"category1", "us">>>>
    /\ error = TruncatedMessage(10001)
    /\ benchmarks = <<>>
    /\ ~showCharts
    /\ selectedCategories = <<>>
    /\ KeysOf(url) = {"project"}

\* C12: choosing "All" for key k removes k from the filter state and from the
\* URL, and every other category key keeps its value (or its absence) in both
C12_ClearRemovesOnlyThatKey ==
    [][\A i \in DOMAIN CategoryKeys :
        LET k == CategoryKeys[i]
        IN  handleCategoryChange(k, "") =>
                /\ ~Has(selectedCategories', k)
                /\ ~Has(url', k)
                /\ \A j \in DOMAIN CategoryKeys \ {i} :
                    LET other == CategoryKeys[j]
                    IN  /\ Has(selectedCategories', other) = Has(selectedCategories, other)
                        /\ Get(selectedCategories', other) = Get(selectedCategories, other)
                        /\ Has(url', other) = Has(url, other)
                        /\ Get(url', other) = Get(url, other)]_vars

\* category1, restored from the URL the page was opened with, has been cleared
\* and category2 is still set in the state and in the URL: only that URL has
\* category2 before the project parameter
C12_Witness ==
    /\ selectedProject # <<>>
    /\ selectedCategories = <<<<"category2", "linux">>>>
    /\ url = <<<<"category2", "linux">>, <<"project", "Web">>>>

\* a step of one of the filter operations: select, clear, apply a suggestion,
\* reset; each is taken in the same project and answers no request
FilterOperation ==
    /\ selectedProject' = selectedProject
    /\ pending \subseteq pending'
    /\ \/ \E i \in DOMAIN CategoryKeys : \E value \in Options(CategoryKeys[i]) : handleCategoryChange(CategoryKeys[i], value)
       \/ \E filters \in Suggestions : applyFilterSet(filters)
       \/ handleResetFilters

-----------------------------------------------------------------------------
(* The active dimensions of a project: every pattern of named and unnamed
   category slots, mounted with a filter set and with stored rows *)

\* project metadata with each category slot named or not
FieldProjects == {[Metadata("Web", NullStr, NullStr, NullStr, "latency") EXCEPT !.category1_name = n[1], !.category2_name = n[2], !.category3_name = n[3], !.category4_name = n[4], !.category5_name = n[5]] : n \in [1..5 -> {NullStr, "dim"}]}

\* a row with a value in each of the first three category columns
FieldRow(t, c1, c2, c3) == [Row("Web", t, c1, c2, t) EXCEPT !.category3 = c3]

\* the rows of the project; the columns of unnamed slots are filled all the same
FieldTable == <<FieldRow(1, "us", "linux", "x"), FieldRow(2, "us", "mac", "y"), FieldRow(3, "eu", "linux", "x")>>

\* filter sets as a fetch may be given them; a stored recent filter set can
\* carry the key of a slot that had a name when it was stored
FieldFilters == {<<>>, <<<<"category1", "us">>>>, <<<<"category2", "linux">>>>, <<<<"category3", "y">>>>, <<<<"category1", "us">>, <<"category3", "y">>>>, <<<<"category3", "x">>, <<"category2", "linux">>, <<"category1", "eu">>>>}

\* BenchmarkCharts mounted for the project, its rows stored
InitFields ==
    /\ url = <<<<"project", "Web">>>>
    /\ localStorage = [p \in {"API", "Web"} |-> <<>>]
    /\ selectedProject \in {<<p>> : p \in FieldProjects}
    /\ selectedCategories = <<>>
    /\ categories = <<>>
    /\ exampleFilters = <<>>
    /\ recentFilters = <<>>
    /\ benchmarks = FieldTable
    /\ loading = FALSE
    /\ error = NullStr
    /\ showCharts = FALSE
    /\ pending = {}
    /\ resolution = NoResolution
    /\ fetches = 0
    /\ projectSelector = NoSelector
    /\ rendered = NotRendered

\* render of the filter panel: one select per active category field
RenderFilterPanel ==
    /\ rendered' = [fn |-> "filters", valueKey |-> "", categoryKey |-> "", result |-> MapField(activeCategoryFields(selectedProject[1]), "key")]
    /\ UNCHANGED uiVars

\* fetchBenchmarks: the query built for a filter set, run on the project's rows
RunQuery(filters) ==
    /\ rendered' = [fn |-> "query", valueKey |-> "", categoryKey |-> "", result |-> <<[filters |-> filters, data |-> Query(FieldTable, selectedProject[1], activeCategoryFields(selectedProject[1]), filters)]>>]
    /\ UNCHANGED uiVars

\* getCategoryKey of the i-th stored row
RenderKey(i) ==
    /\ rendered' = [fn |-> "getCategoryKey", valueKey |-> "", categoryKey |-> "", result |-> <<[row |-> i, key |-> getCategoryKey(activeCategoryFields(selectedProject[1]), benchmarks[i])]>>]
    /\ UNCHANGED uiVars

NextFields ==
    \/ RenderFilterPanel
    \/ \E filters \in FieldFilters : RunQuery(filters)
    \/ \E i \in DOMAIN benchmarks : RenderKey(i)

SpecFields == InitFields /\ [][NextFields]_vars

\* the slots of the mounted project with a name, as a set of slot numbers
NamedSlots == {i \in 1..5 : selectedProject[1][CategoryKeys[i] \o "_name"] # NullStr}

\* the slot number of a category key
SlotOf(k) == CHOOSE i \in 1..5 : CategoryKeys[i] = k

\* the values of the named slots of a row, in ascending slot order, joined by "|"
NamedValues(row) == Join(SelectSeq([i \in 1..5 |-> IF i \in NamedSlots THEN OrNull(row[CategoryKeys[i]]) ELSE "<unnamed>"], LAMBDA v : v # "<unnamed>"), "|")

\* C14: the selects rendered are those of the named slots, each once and in
\* ascending slot order; a query returns the project's rows that agree with the
\* filter set on the named slots it gives a value for, whatever it holds for the
\* other slots; a combination key is made of the values of the named slots only
C14_ActiveFieldsAreNamedSlots ==
    /\ rendered.fn = "filters" =>
        /\ {rendered.result[i] : i \in DOMAIN rendered.result} = {CategoryKeys[i] : i \in NamedSlots}
        /\ \A i, j \in DOMAIN rendered.result : i < j => SlotOf(rendered.result[i]) < SlotOf(rendered.result[j])
    /\ rendered.fn = "query" =>
        LET filters == rendered.result[1].filters
        IN  rendered.result[1].data = SelectSeq(FieldTable, LAMBDA b : \A i \in NamedSlots : Has(filters, CategoryKeys[i]) => b[CategoryKeys[i]] = Get(filters, CategoryKeys[i]))
    /\ rendered.fn = "getCategoryKey" =>
        rendered.result[1].key = NamedValues(benchmarks[rendered.result[1].row])

\* a project with a gap (category1 and category3 named, category2 not): its
\* panel has been rendered
C14_Witness ==
    /\ rendered.fn = "filters"
    /\ NamedSlots = {1, 3}
    /\ rendered.result = <<"category1", "category3">>

\* for such a project a query has been run with a filter set that names category2
C14_WitnessQuery ==
    /\ rendered.fn = "query"
    /\ NamedSlots = {1, 3}
    /\ Has(rendered.result[1].filters, "category2")
    /\ Len(rendered.result[1].data) = 1

-----------------------------------------------------------------------------
(* Claims about category resolution and loading *)

\* the keys of the get_distinct_categories requests not yet answered
AwaitedKeys(reqs) == {req.key : req \in {r \in reqs : r.kind = "distinct"}}

\* C15: while the component stays mounted, categories changes only in the step
\* that completes an open join with every dimension's request answered
\* successfully, and then holds the values of every active field; a failed
\* dimension request sets the error and leaves categories as it was, and after
\* it (the join is settled) no later response changes categories
C15_ResolutionAllOrNothing ==
    [][/\ (selectedProject # <<>> /\ selectedProject' = selectedProject /\ categories' # categories) =>
            /\ ~resolution.settled
            /\ AwaitedKeys(pending') = {}
            /\ {r[1] : r \in resolution.results} \cup AwaitedKeys(pending \ pending') = {Fields[i].key : i \in DOMAIN Fields}
            /\ KeysOf(categories') = {Fields[i].key : i \in DOMAIN Fields}
       /\ \A req \in pending \ pending' :
            (selectedProject' # <<>> /\ ~resolution.settled /\ DistinctResponse(req, "error")) =>
                /\ error' = FetchErrorMessage
                /\ categories' = categories
                /\ resolution'.settled]_vars

\* both dimension requests have been answered, one of them with an error: the
\* error is shown, no benchmark fetch was ever started, and no values are stored
C15_Witness ==
    /\ selectedProject # <<>>
    /\ fetches = 0
    /\ error = FetchErrorMessage
    /\ AwaitedKeys(pending) = {}
    /\ categories = <<>>

\* C16: while the component is mounted and a backend request is outstanding,
\* loading is true and the filter panel offers no action
C16_LoadingWhileOutstanding ==
    (selectedProject # <<>> /\ pending # {}) => (loading /\ View # "filters")

\* the benchmark requests started in this step by the mounted component
Started == IF selectedProject' = selectedProject THEN {req \in pending' \ pending : req.kind = "benchmarks"} ELSE {}

\* C17: the step that handles a failed benchmark query (a backend error or a
\* thrown exception) sets the error message and loading to false and leaves the
\* stored rows, showCharts, the filter state and the URL as they were; the step
\* that starts a fetch from the mounted component leaves the stored rows and
\* showCharts as they were
C17_FailedFetchKeepsState ==
    [][/\ \A req \in Answered : \A outcome \in {"throw", "error"} :
            BenchmarksResponse(req, Response(outcome, <<>>, 0)) =>
                /\ benchmarks' = benchmarks
                /\ showCharts' = showCharts
                /\ selectedCategories' = selectedCategories
                /\ url' = url
                /\ error' = (IF outcome = "throw" THEN ExceptionMessage ELSE FetchErrorMessage)
                /\ ~loading'
       /\ Started # {} => (benchmarks' = benchmarks /\ showCharts' = showCharts)]_vars

\* a benchmark query has thrown, nothing is outstanding, and the chart view
\* still holds rows of an accepted fetch
C17_Witness ==
    /\ selectedProject # <<>>
    /\ error = ExceptionMessage
    /\ ~loading
    /\ pending = {}
    /\ showCharts
    /\ Len(benchmarks) > 0

\* the mounted component offers an action that issues get_distinct_categories again
RetryCategories == ENABLED (Next /\ selectedProject' = selectedProject /\ \E req \in pending' \ pending : req.kind = "distinct")

\* the mounted component offers an action that issues a benchmark query
RetryBenchmarks == ENABLED (Next /\ Started # {})

\* C18: when the error of a failed category load is displayed (no benchmark
\* fetch has been started, so the message is that of the category load), an
\* action that issues the category requests again is offered; when the
\* exception message of a failed benchmark query is displayed and nothing is
\* loading, an action that issues a benchmark query is offered
C18_RetryOffered ==
    /\ (selectedProject # <<>> /\ fetches = 0 /\ error = FetchErrorMessage) => RetryCategories
    /\ (selectedProject # <<>> /\ fetches < MaxFetches /\ ~loading /\ pending = {} /\ error = ExceptionMessage) => RetryBenchmarks

-----------------------------------------------------------------------------
(* The example filter sets: the generation run on the rows a sample query
   can return *)

MaxSample == 4

\* the rows a project can hold: each of the first two category columns null,
\* empty or filled
SampleRowKinds == {Row("Web", 1, c1, c2, 1) : c1 \in {NullStr, "", "us", "eu"}, c2 \in {NullStr, "linux"}}

RECURSIVE SeqsUpTo(_, _)
\* the sequences over a set of at most n elements
SeqsUpTo(S, n) == IF n = 0 THEN {<<>>} ELSE LET shorter == SeqsUpTo(S, n - 1) IN shorter \cup {Append(s, x) : s \in {t \in shorter : Len(t) = n - 1}, x \in S}

\* a project with more rows than the sample query returns: n rows without
\* category values, then two rows with values
LongTable(n) == [i \in 1..n |-> Row("Web", i, NullStr, NullStr, i)] \o <<Row("Web", n + 1, "us", "linux", 1), Row("Web", n + 2, "eu", NullStr, 2)>>

\* the contents of the project's rows when the sample query runs
SampleTables == SeqsUpTo(SampleRowKinds, MaxSample) \cup {LongTable(SampleLimit - 1), LongTable(SampleLimit)}

\* BenchmarkCharts mounted for a project whose rows are given, the category
\* requests and the sample query issued
InitExamples ==
    /\ url = <<<<"project", "Web">>>>
    /\ localStorage = [p \in {"API", "Web"} |-> <<>>]
    /\ selectedProject \in {<<ProjWeb>>, <<[ProjAPI EXCEPT !.project = "Web"]>>}
    /\ selectedCategories = <<>>
    /\ categories = <<>>
    /\ exampleFilters = <<>>
    /\ recentFilters = <<>>
    /\ benchmarks = <<>>
    /\ loading = TRUE
    /\ error = NullStr
    /\ showCharts = FALSE
    /\ pending = {}
    /\ resolution = NoResolution
    /\ fetches = 0
    /\ projectSelector = NoSelector
    /\ \E rows \in SampleTables : rendered = [fn |-> "sample", valueKey |-> "", categoryKey |-> "", result |-> rows]

\* the mutant of GenerateExamples: the sample query without its limit
GenerateExamplesUnlimited ==
    /\ rendered.fn = "sample"
    /\ exampleFilters' = Examples(Fields, rendered.result)
    /\ rendered' = [rendered EXCEPT !.fn = "examples"]
    /\ UNCHANGED <<url, localStorage, selectedProject, selectedCategories, categories, recentFilters, benchmarks, loading, error, showCharts, pending, resolution, fetches, projectSelector>>

\* the sample query answered without an error: .limit(100) on the project's
\* rows, then the examples generated from the data
GenerateExamples ==
    /\ rendered.fn = "sample"
    /\ exampleFilters' = Examples(Fields, Take(rendered.result, SampleLimit))
    /\ rendered' = [rendered EXCEPT !.fn = "examples"]
    /\ UNCHANGED <<url, localStorage, selectedProject, selectedCategories, categories, recentFilters, benchmarks, loading, error, showCharts, pending, resolution, fetches, projectSelector>>

NextExamples == GenerateExamples

SpecExamples == InitExamples /\ [][NextExamples]_vars

\* the rows the sample query returned
Sampled == Take(rendered.result, SampleLimit)

\* the values of a row in the active dimensions that satisfy a condition, as a filter set
ValuesOf(row, Keep(_)) == SelectSeq([i \in DOMAIN Fields |-> <<Fields[i].key, row[Fields[i].key]>>], LAMBDA e : Keep(e[2]))

\* the entries are taken from rows of the sample, in the order of the sample
TakenInOrder(entries, Keep(_)) ==
    \E at \in [DOMAIN entries -> DOMAIN Sampled] :
        /\ \A i, j \in DOMAIN entries : i < j => at[i] < at[j]
        /\ \A i \in DOMAIN entries : entries[i] = ValuesOf(Sampled[at[i]], Keep)

ExampleListShape ==
    /\ Len(exampleFilters) <= 3
    /\ \A i \in DOMAIN exampleFilters : Len(exampleFilters[i]) > 0
    /\ \A i, j \in DOMAIN exampleFilters : i # j => ~SameFilters(exampleFilters[i], exampleFilters[j])

\* C19 as stated: at most 3 entries, none empty, no two value-equal, each the
\* non-null values of a sampled row in the active dimensions, in sample order
C19_ExamplesAreNonNullValues == rendered.fn = "examples" => ExampleListShape /\ TakenInOrder(exampleFilters, LAMBDA v : v # NullStr)

\* C19, amended: at most 3 entries, none empty, no two value-equal, each the
\* values of a sampled row in the active dimensions that are neither null nor
\* the empty string, in sample order
C19_ExamplesAreNonEmptyValues == rendered.fn = "examples" => ExampleListShape /\ TakenInOrder(exampleFilters, LAMBDA v : v # NullStr /\ v # "")

\* four sampled rows with four different value sets, one of them with an empty
\* string: three examples are kept
C19_Witness ==
    /\ rendered.fn = "examples"
    /\ Len(Sampled) = 4
    /\ Sampled[1].category1 = "" /\ Sampled[1].category2 = "linux"
    /\ Len(exampleFilters) = 3
    /\ exampleFilters[1] = <<<<"category2", "linux">>>>
    /\ Cardinality({ValuesOf(Sampled[i], LAMBDA v : v # NullStr /\ v # "") : i \in DOMAIN Sampled}) = 4
    /\ \A i \in DOMAIN Sampled : ValuesOf(Sampled[i], LAMBDA v : v # NullStr /\ v # "") # <<>>

-----------------------------------------------------------------------------
(* The category combinations of the stored rows: rows whose category values
   are null, empty, the word null, or hold the separator of the key *)

MaxStored == 3

\* the values a category column can hold
ComboValues1 == {NullStr, "", "null", "a", "a|b"}

ComboValues2 == {"c", "b|c"}

\* the rows a query can return, in timestamp order
ComboRowSeqs == UNION {{[i \in 1..n |-> Row("Web", i, c1[i], c2[i], i)] : c1 \in [1..n -> ComboValues1], c2 \in [1..n -> ComboValues2]} : n \in 0..MaxStored}

\* benchmark[key] || 'N/A'
OrNA(x) == IF x = NullStr \/ x = "" THEN "N/A" ELSE x

getCategoryLabelFull(fields, benchmark) == Join([i \in DOMAIN fields |-> fields[i].name \o ": " \o OrNA(benchmark[fields[i].key])], " | ")

getCategoryLabelCompact(fields, benchmark) == Join([i \in DOMAIN fields |-> OrNA(benchmark[fields[i].key])], " | ")

RECURSIVE uniqueCategoryCombinations(_, _)
\* benchmarks.forEach: a row whose key the map does not have adds an entry;
\* Array.from(combinationsMap.values()) gives the entries in insertion order
uniqueCategoryCombinations(fields, rows) ==
    IF Len(rows) = 0 THEN <<>>
    ELSE LET combinations == uniqueCategoryCombinations(fields, SubSeq(rows, 1, Len(rows) - 1))
             benchmark == rows[Len(rows)]
             key == getCategoryKey(fields, benchmark)
         IN  IF \E i \in DOMAIN combinations : combinations[i].key = key
             THEN combinations
             ELSE Append(combinations, [key |-> key, labelFull |-> getCategoryLabelFull(fields, benchmark), labelCompact |-> getCategoryLabelCompact(fields, benchmark), sample |-> benchmark])

\* the chart view of project Web with the rows of a successful fetch stored
InitCombos ==
    /\ url = <<<<"project", "Web">>>>
    /\ localStorage = [p \in {"API", "Web"} |-> <<>>]
    /\ selectedProject = <<ProjWeb>>
    /\ selectedCategories = <<>>
    /\ categories = <<>>
    /\ exampleFilters = <<>>
    /\ recentFilters = <<>>
    /\ benchmarks \in ComboRowSeqs
    /\ loading = FALSE
    /\ error = NullStr
    /\ showCharts = TRUE
    /\ pending = {}
    /\ resolution = NoResolution
    /\ fetches = 0
    /\ projectSelector = NoSelector
    /\ rendered = NotRendered

\* fetchBenchmarks: the number of unique combinations of the rows fetched
CountCombinations ==
    /\ rendered' = [fn |-> "uniqueCombos", valueKey |-> "", categoryKey |-> "", result |-> <<Cardinality(uniqueCombos(Fields, benchmarks))>>]
    /\ UNCHANGED uiVars

\* render: the combinations of the stored rows, one chart series each
RenderCombinations ==
    /\ rendered' = [fn |-> "uniqueCategoryCombinations", valueKey |-> "", categoryKey |-> "", result |-> uniqueCategoryCombinations(Fields, benchmarks)]
    /\ UNCHANGED uiVars

NextCombos ==
    \/ CountCombinations
    \/ RenderCombinations

SpecCombos == InitCombos /\ [][NextCombos]_vars

\* the values of a row in the active category dimensions
TupleOf(row) == [i \in DOMAIN Fields |-> row[Fields[i].key]]

\* C20: two stored rows have the same combination key exactly if they have
\* equal values in every active category dimension; the combinations are the
\* distinct tuples of the rows, one entry each in the order of first
\* occurrence; the count compared with the ceiling is the number of distinct tuples
C20_KeysAreFaithful ==
    /\ rendered.fn = "uniqueCategoryCombinations" =>
        /\ \A i, j \in DOMAIN benchmarks : (getCategoryKey(Fields, benchmarks[i]) = getCategoryKey(Fields, benchmarks[j])) <=> (TupleOf(benchmarks[i]) = TupleOf(benchmarks[j]))
        /\ [i \in DOMAIN rendered.result |-> TupleOf(rendered.result[i].sample)] = Distinct([i \in DOMAIN benchmarks |-> TupleOf(benchmarks[i])])
    /\ rendered.fn = "uniqueCombos" =>
        rendered.result[1] = Cardinality({TupleOf(benchmarks[i]) : i \in DOMAIN benchmarks})

\* the separator alone: two rows without null or empty values, with different
\* tuples, are given one key
C20_SeparatorCollision ==
    /\ rendered.fn = "uniqueCategoryCombinations"
    /\ Len(benchmarks) = 2
    /\ TupleOf(benchmarks[1]) = <<"a|b", "c">>
    /\ TupleOf(benchmarks[2]) = <<"a", "b|c">>
    /\ Len(rendered.result) = 1

-----------------------------------------------------------------------------
(* The chart buckets: stored rows of a project with one category dimension,
   whose values include the names of the fields of a chart data point *)

BucketTimestamps == {1, 2, 61, 125}

\* the values of the category column
BucketCategories == {"us", "timestamp", "fullTimestamp"}

BucketValues == {NullNum, 5}

BucketRowDomain == {Row("API", t, c, NullStr, v) : t \in BucketTimestamps, c \in BucketCategories, v \in BucketValues}

\* the rows a query can return, in ascending timestamp order
BucketRowSeqs == UNION {{s \in [1..n -> BucketRowDomain] : Ascending(s)} : n \in 0..MaxRows}

\* the chart view of project API with the rows of a successful fetch stored
InitBuckets ==
    /\ url = <<<<"project", "API">>>>
    /\ localStorage = [p \in {"API", "Web"} |-> <<>>]
    /\ selectedProject = <<ProjAPI>>
    /\ selectedCategories = <<>>
    /\ categories = <<>>
    /\ exampleFilters = <<>>
    /\ recentFilters = <<>>
    /\ benchmarks \in BucketRowSeqs
    /\ loading = FALSE
    /\ error = NullStr
    /\ showCharts = TRUE
    /\ pending = {}
    /\ resolution = NoResolution
    /\ fetches = 0
    /\ projectSelector = NoSelector
    /\ rendered = NotRendered

NextBuckets == \E f \in {activeValueFields(selectedProject[1])[i] : i \in DOMAIN activeValueFields(selectedProject[1])} : RenderChart(f.key)

SpecBuckets == InitBuckets /\ [][NextBuckets]_vars

\* the index of the row that opens the k-th bucket
BucketOpener(k) == CHOOSE i \in BucketOpeners : Cardinality({j \in BucketOpeners : j <= i}) = k

\* C21: the chart has one bucket per distinct minute of the stored rows; the
\* k-th bucket carries the label of the k-th distinct minute and the timestamp
\* of the first row of that minute, whatever values the series of the bucket
\* hold; the buckets are in ascending order of time
C21_OneBucketPerMinute ==
    ChartRendered =>
        /\ Len(rendered.result) = Cardinality({FormatMinute(benchmarks[i].timestamp) : i \in DOMAIN benchmarks})
        /\ \A k \in DOMAIN rendered.result :
            /\ rendered.result[k].timestamp = FormatMinute(benchmarks[BucketOpener(k)].timestamp)
            /\ rendered.result[k].fullTimestamp = benchmarks[BucketOpener(k)].timestamp
        /\ \A k, l \in DOMAIN rendered.result : k < l => rendered.result[k].fullTimestamp < rendered.result[l].fullTimestamp

-----------------------------------------------------------------------------
(* Claims about the mount of BenchmarkCharts, the URL and the races of fetches *)

\* the benchmark requests a step starts
StartedBenchmarks == {req \in pending' \ pending : req.kind = "benchmarks"}

\* C22: the step that mounts BenchmarkCharts starts a benchmark fetch exactly
\* if the URL has a non-empty value for an active category dimension, and the
\* fetch is made with the filter set restored from the URL; a step that
\* answers a request starts no fetch
C22_AutoFetchIffPreselected ==
    [][
        /\ (selectedProject = <<>> /\ selectedProject' # <<>>) =>
                LET fields == activeCategoryFields(selectedProject'[1])
                    preselected == \E i \in DOMAIN fields : Truthy(Get(url', fields[i].key))
                IN  /\ preselected <=> StartedBenchmarks # {}
                    /\ \A req \in StartedBenchmarks : req.filters = initialCategories(fields, url') /\ req.filters = selectedCategories'
        /\ (selectedProject # <<>> /\ selectedProject' = selectedProject /\ ~(pending \subseteq pending')) => StartedBenchmarks = {}
    ]_vars

\* a shared link: category parameters among a parameter the application does not know
SharedURLs == {<<<<"category2", "linux">>, <<"ref", "x">>, <<"category1", "us">>>>, <<<<"ref", "x">>, <<"category1", "">>>>}

\* the page opened from a shared link in a browser that has stored no recent filters
InitSharedLink ==
    /\ url \in SharedURLs
    /\ localStorage = [p \in {"API", "Web"} |-> <<>>]
    /\ selectedProject = <<>>
    /\ selectedCategories = <<>>
    /\ categories = <<>>
    /\ exampleFilters = <<>>
    /\ recentFilters = <<>>
    /\ benchmarks = <<>>
    /\ loading = FALSE
    /\ error = NullStr
    /\ showCharts = FALSE
    /\ pending = {}
    /\ resolution = NoResolution
    /\ fetches = 0
    /\ projectSelector = SelectorMounted
    /\ rendered = NotRendered

SpecSharedLink == InitSharedLink /\ [][Next]_vars

\* the parameters of a URL other than project and category1..category5, in order
OtherParams(params) == SelectSeq(params, LAMBDA e : e[1] # "project" /\ \A i \in DOMAIN CategoryKeys : e[1] # CategoryKeys[i])

\* C23: after handleBackToProjects no project is selected, the URL has neither
\* the project parameter nor any of category1..category5, and its other
\* parameters are as they were
C23_BackClearsProjectAndFilters ==
    [][handleBackToProjects =>
        /\ selectedProject' = <<>>
        /\ ~Has(url', "project")
        /\ \A i \in DOMAIN CategoryKeys : ~Has(url', CategoryKeys[i])
        /\ OtherParams(url') = OtherParams(url)
        /\ url' = OtherParams(url)]_vars

\* back on the project list after a fetch with filters, the link's own parameter kept
C23_Witness ==
    /\ selectedProject = <<>>
    /\ fetches > 0
    /\ localStorage["Web"] # <<>>
    /\ url = <<<<"ref", "x">>>>

\* C24: while BenchmarkCharts is mounted the stored rows have at most 25
\* category combinations, and the charts have at most 25 series
C24_AtMostCeilingStored ==
    selectedProject # <<>> =>
        /\ Cardinality(CombinationKeys(benchmarks, Fields)) <= 25
        /\ Len(uniqueCategoryCombinations(Fields, benchmarks)) <= 25

\* the rows of a fetch with exactly 25 combinations are charted
C24_Witness ==
    /\ selectedProject # <<>>
    /\ showCharts
    /\ Cardinality(CombinationKeys(benchmarks, Fields)) = 25
    /\ Len(uniqueCategoryCombinations(Fields, benchmarks)) = 25

\* C25: a step that leaves the chart view showing rows either keeps the rows
\* and the filter state of a chart view that was showing them, or stores the
\* rows of a request made with the filter set the filter state now holds
C25_ChartedRowsMatchFilters ==
    [][
        (selectedProject # <<>> /\ selectedProject' = selectedProject /\ showCharts' /\ benchmarks' # <<>>) =>
            \/ showCharts /\ benchmarks' = benchmarks /\ selectedCategories' = selectedCategories
            \/ \E req \in pending \ pending' : req.kind = "benchmarks" /\ SameFilters(req.filters, selectedCategories')
    ]_vars

\* C26: the response of a benchmark request that is not the latest one started
\* is written like any other: its rows are stored and the charts shown when it
\* is accepted, its error is set when it fails, and loading is set to false
C26_StaleResponseIsWritten ==
    [][\A req \in Answered : req.id < fetches => \A resp \in ResponsesTo(req) :
        BenchmarksResponse(req, resp) =>
            /\ ~loading'
            /\ IF resp.outcome = "ok" /\ CombinationCount(resp.data) <= 25
               THEN benchmarks' = resp.data /\ showCharts' /\ error' = (IF resp.count > 10000 THEN TruncatedMessage(resp.count) ELSE error)
               ELSE /\ benchmarks' = benchmarks
                    /\ showCharts' = showCharts
                    /\ error' = (IF resp.outcome = "throw" THEN ExceptionMessage ELSE IF resp.outcome = "error" THEN FetchErrorMessage ELSE TooManyMessage(CombinationCount(resp.data)))]_vars

\* two fetches were outstanding at once and the response of the earlier one has
\* arrived: the latest request is still outstanding, and the chart view, which
\* starts no fetch, shows rows
C26_Witness ==
    /\ selectedProject # <<>>
    /\ showCharts
    /\ Len(benchmarks) > 0
    /\ \E req \in pending : req.kind = "benchmarks" /\ req.id = fetches

-----------------------------------------------------------------------------
(* Loading: every outstanding request is answered in the end *)

\* a request that gets no answer ends as a failed one: the rpc and the sample
\* query give an error, the benchmark query throws
RequestFails ==
    \E req \in pending :
        \/ DistinctResponse(req, "error")
        \/ ExamplesResponse(req, "error")
        \/ BenchmarksResponse(req, Response("throw", <<>>, 0))

\* the application on a first visit; no request stays outstanding for ever
SpecAnswered == InitFirstVisit /\ [][Next]_vars /\ WF_vars(RequestFails)

\* C27: with no request outstanding loading is false; loading turns true only
\* in a step that starts a request; the response of a benchmark request sets
\* loading to false; and while loading is true it is false again later
C27_LoadingEnds ==
    /\ []((selectedProject # <<>> /\ pending = {}) => ~loading)
    /\ [][(~loading /\ loading') => pending' \ pending # {}]_vars
    /\ [][Answered # {} => ~loading']_vars
    /\ (loading ~> ~loading)

\* every request of a mount with a fetch has been answered, the benchmark
\* request with a rejection for too many combinations
C27_Witness ==
    /\ selectedProject # <<>>
    /\ pending = {}
    /\ fetches > 0
    /\ ~loading
    /\ error = TooManyMessage(26)

\* C28: after a filter operation the URL's project parameter names the
\* selected project
C28_FiltersKeepProjectParam ==
    [][FilterOperation => (Has(url', "project") /\ Get(url', "project") = selectedProject'[1].project)]_vars

-----------------------------------------------------------------------------
(* Claims about ProjectSelector *)

\* C29: when the catalog query of a Retry succeeds after a failed load, the
\* error message is gone and the list of the fetched projects is displayed
C29_RetrySuccessLeavesErrorState ==
    [][
        (ProjectsResponse("ok") /\ Truthy(projectSelector.error)) =>
            /\ ~Truthy(projectSelector'.error)
            /\ SelectorView' = "list"
            /\ projectSelector'.projects = CatalogInOrder
    ]_vars

====
